---------------------------- MODULE Spec2Model ----------------------------
(***************************************************************************)
(* AI Photo Editor (golder): the top-level App step machine with its       *)
(* asynchronous upload / AI-edit handlers, the ImageUploader, ImageEditor  *)
(* and ImageGenerator components, the ImageControlPanel (filters, AI       *)
(* retouch) and the DownloadModal export pipeline.                         *)
(*                                                                         *)
(* Conventions.  A JavaScript null / undefined is the empty tuple.  A      *)
(* string that the code builds from a template is the tuple of its parts   *)
(* (<<"Editing failed: ", message>>).  A prompt is the sequence of its     *)
(* characters, so that String.prototype.trim is computed, not assumed.     *)
(* A handler runs to its first await in one step; each continuation after  *)
(* an await is a step of its own, so that other events interleave exactly  *)
(* where the event loop lets them.                                         *)
(***************************************************************************)
EXTENDS Integers, Sequences, FiniteSets

VARIABLES
    \* ---- App (src/App.tsx:15-20)
    editingStep, originalImage, editedImage, prompt, isLoading, error,
    \* ---- App: operations in flight
    uploads,        \* FileReader reads in flight: id -> file (its MIME type)
    nUploads,       \* fileToBase64 calls made so far
    edits,          \* editImageWithGemini calls in flight: id -> request
    nEdits,         \* editImageWithGemini calls made so far by handleSubmitEdit
    \* ---- ImageUploader (src/components/Header.tsx:32)
    isDragging,
    \* ---- ImageEditor (src/unnamed/part_000:52)
    completedCrop,
    \* ---- ImageGenerator (src/unnamed/part_002:184-189)
    genPrompt, genIsLoading, isUpscaling, genError, generatedImage,
    gens,           \* generate / upscale calls in flight: id -> request
    nGens,          \* generate / upscale calls made so far
    \* ---- ImageControlPanel (src/unnamed/part_003:64-78); imageSrc is its prop
    imageSrc, displayImage, activeFilter, retouchOptions, isRetouching, retouchError,
    isDownloadModalOpen,
    retouches,      \* handleApplyRetouch runs in flight: id -> run
    nRetouches,     \* handleApplyRetouch runs started so far
    \* ---- DownloadModal (src/components/DownloadModal.tsx:12-23)
    format, jpegQuality, targetSize, isProcessing, downloadError,
    \* ---- DownloadModal.handleDownload in flight
    dlPc,           \* "idle", or the promise handleDownload awaits
    quality,        \* its local variable quality (a double), null outside the loop
    blob,           \* the size of its local variable blob, null before the first
    nDownloads,     \* handleDownload runs started so far
    \* ---- what the handlers did, recorded for the properties
    accepted,       \* per AI operation: user actions that passed the handler's guards
    issued,         \* per AI operation: calls of the AI service made
    encodes,        \* the getBlob calls of the current handleDownload run
    downloaded,     \* the blob handed to the browser by the last link.click()
    afterReset      \* handleReset ran and the user started no upload or generation since

appVars == <<editingStep, originalImage, editedImage, prompt, isLoading, error>>
flightVars == <<uploads, nUploads, edits, nEdits>>
localVars == <<isDragging, completedCrop>>
genVars == <<genPrompt, genIsLoading, isUpscaling, genError, generatedImage>>
genFlight == <<gens, nGens>>
panelVars == <<imageSrc, displayImage, activeFilter, retouchOptions, isRetouching,
               retouchError, isDownloadModalOpen>>
panelFlight == <<retouches, nRetouches>>
dlVars == <<format, jpegQuality, targetSize, isProcessing, downloadError,
            dlPc, quality, blob, nDownloads, encodes, downloaded>>
counts == <<accepted, issued>>
history == <<counts, afterReset>>
studioVars == <<panelVars, panelFlight, dlVars>>

-----------------------------------------------------------------------------
(* Bounds of the model *)
\* Asynchronous operations (file reads and AI calls) started in one behaviour
MaxOps == 3
\* handleDownload runs started in one behaviour
MaxDownloads == 2

-----------------------------------------------------------------------------
(* Values *)
null == <<>>

EditingStep == {"upload", "choice", "ai-edit", "studio", "generation"}

\* The accept attribute of the file input.
AcceptedTypes == {"image/png", "image/jpeg", "image/webp"}

\* The MIME types of the files the user holds: an accepted one and another one.
FileTypes == {"image/jpeg", "text/plain"}

\* What the user types into a prompt textarea.
Prompts == {<<>>, <<" ">>, <<"a">>, <<" ", "a", " ">>}

\* What a rejected promise carries: <<it is an Error, its message>>.  The AI
\* service throws Errors; an image element's onerror passes an Event.
Rejections == {<<TRUE, "request failed">>, <<FALSE, "">>}

RECURSIVE trimStart(_)
trimStart(s) == IF s # <<>> /\ Head(s) = " " THEN trimStart(Tail(s)) ELSE s

RECURSIVE trimEnd(_)
trimEnd(s) ==
    IF s # <<>> /\ s[Len(s)] = " " THEN trimEnd(SubSeq(s, 1, Len(s) - 1)) ELSE s

\* String.prototype.trim
trim(s) == trimEnd(trimStart(s))

\* err instanceof Error ? err.message : fallback
errorMessage(err, fallback) == IF err[1] THEN err[2] ELSE fallback

AiOperations == {"edit", "generate", "upscale", "retouch"}

-----------------------------------------------------------------------------
(* ImageControlPanel: the filters table and the retouch options *)

\* A table that lists 'Sepia' twice, the second time in the place of 'Invert'
filterNamesRepeated ==
    <<"None", "Auto Enhance", "Grayscale", "Sepia", "Sepia", "Noir", "Vibrant",
      "Cool", "Warm", "High Contrast", "Vintage", "Cyberpunk", "Pastel", "Dreamy",
      "Nashville", "Lomo", "Gotham", "Pop Art", "Infrared", "Old West",
      "Emerald City">>

\* The names of the filters table, in its order.
filterNames ==
    <<"None", "Auto Enhance", "Grayscale", "Sepia", "Invert", "Noir", "Vibrant",
      "Cool", "Warm", "High Contrast", "Vintage", "Cyberpunk", "Pastel", "Dreamy",
      "Nashville", "Lomo", "Gotham", "Pop Art", "Infrared", "Old West",
      "Emerald City">>

\* One function of a CSS filter string, fn(base + sign * k * (i/100) unit), as
\* <<fn, hundred times its argument, unit>>.
Term(fn, base, k, i, unit) == <<fn, 100 * base + k * i, unit>>

\* The style template of each filter at intensity i: the sequence of the
\* functions of its filter string, empty for the empty string.
filterStyle(name, i) ==
    CASE name = "None" -> <<>>
      [] name = "Auto Enhance" ->
            <<Term("brightness", 100, 5, i, "%"), Term("contrast", 100, 15, i, "%"),
              Term("saturate", 100, 20, i, "%")>>
      [] name = "Grayscale" -> <<Term("grayscale", 0, 100, i, "%")>>
      [] name = "Sepia" -> <<Term("sepia", 0, 100, i, "%")>>
      [] name = "Invert" -> <<Term("invert", 0, 100, i, "%")>>
      [] name = "Noir" ->
            <<Term("grayscale", 100, 0, i, "%"), Term("contrast", 100, 25, i, "%"),
              Term("brightness", 100, -10, i, "%")>>
      [] name = "Vibrant" -> <<Term("saturate", 100, 50, i, "%")>>
      [] name = "Cool" ->
            <<Term("hue-rotate", 0, -15, i, "deg"), Term("saturate", 100, 25, i, "%")>>
      [] name = "Warm" ->
            <<Term("sepia", 0, 20, i, "%"), Term("saturate", 100, 25, i, "%"),
              Term("brightness", 100, 5, i, "%")>>
      [] name = "High Contrast" -> <<Term("contrast", 100, 100, i, "%")>>
      [] name = "Vintage" ->
            <<Term("sepia", 0, 80, i, "%"), Term("contrast", 100, 10, i, "%"),
              Term("brightness", 100, -5, i, "%"), Term("saturate", 100, -20, i, "%")>>
      [] name = "Cyberpunk" ->
            <<Term("contrast", 100, 40, i, "%"), Term("hue-rotate", 0, 180, i, "deg"),
              Term("saturate", 100, 60, i, "%"), Term("brightness", 100, 5, i, "%")>>
      [] name = "Pastel" ->
            <<Term("saturate", 100, -40, i, "%"), Term("contrast", 100, -25, i, "%"),
              Term("brightness", 100, 10, i, "%")>>
      [] name = "Dreamy" ->
            <<Term("blur", 0, 3, i, "px"), Term("brightness", 100, 15, i, "%"),
              Term("contrast", 100, -15, i, "%"), Term("saturate", 100, 10, i, "%")>>
      [] name = "Nashville" ->
            <<Term("sepia", 0, 20, i, "%"), Term("contrast", 100, 20, i, "%"),
              Term("brightness", 100, 5, i, "%"), Term("saturate", 100, 20, i, "%")>>
      [] name = "Lomo" ->
            <<Term("saturate", 100, 50, i, "%"), Term("contrast", 100, 50, i, "%"),
              Term("sepia", 0, 30, i, "%")>>
      [] name = "Gotham" ->
            <<Term("contrast", 100, 30, i, "%"), Term("brightness", 100, -10, i, "%"),
              Term("sepia", 0, 30, i, "%")>>
      [] name = "Pop Art" ->
            <<Term("contrast", 100, 100, i, "%"), Term("saturate", 100, 100, i, "%"),
              Term("hue-rotate", 0, 15, i, "deg")>>
      [] name = "Infrared" ->
            <<Term("hue-rotate", 0, -60, i, "deg"), Term("saturate", 100, 100, i, "%"),
              Term("contrast", 100, 50, i, "%")>>
      [] name = "Old West" ->
            <<Term("sepia", 0, 100, i, "%"), Term("contrast", 100, -10, i, "%"),
              Term("brightness", 100, 10, i, "%"), Term("saturate", 100, -20, i, "%")>>
      [] name = "Emerald City" ->
            <<Term("hue-rotate", 0, 90, i, "deg"), Term("saturate", 100, 50, i, "%"),
              Term("contrast", 100, 20, i, "%")>>

\* The filters table: its entries in order, each a name with its style.
filters == [k \in DOMAIN filterNames |-> [name |-> filterNames[k]]]

\* filters.find(f => f.name === name): the entries the lookup matches.
filtersFound(name) == {k \in DOMAIN filters : filters[k].name = name}

\* filters.find(f => f.name === activeFilter.name)?.style(activeFilter.intensity) || ''
\* (find returns the first match), the part of getCombinedStyle the filter gives.
filterFunc(active) ==
    LET found == filtersFound(active.name)
    IN  IF found = {} THEN <<>>
        ELSE filterStyle(filters[CHOOSE k \in found : \A j \in found : k <= j].name,
                         active.intensity)

\* The range of the intensity slider (min, max).
IntensityMin == 0
IntensityMax == 100

\* The keys of RetouchOptions, in the order of the interface and of the
\* initial state object.
retouchKeys == <<"enhanceSkin", "brightenEyes", "whitenTeeth", "reduceDarkCircles">>

\* The command handleApplyRetouch pushes for each option.
retouchCommand(key) ==
    CASE key = "enhanceSkin" ->
            "perform skin enhancement to smooth texture and reduce blemishes"
      [] key = "brightenEyes" -> "brighten the eyes"
      [] key = "whitenTeeth" -> "whiten the teeth"
      [] key = "reduceDarkCircles" -> "reduce dark circles under the eyes"

\* The keys of a sequence that options selects, in the sequence's order.
RECURSIVE selected(_, _)
selected(keys, options) ==
    IF keys = <<>> THEN <<>>
    ELSE (IF options[Head(keys)] THEN <<Head(keys)>> ELSE <<>>)
         \o selected(Tail(keys), options)

\* Object.entries(retouchOptions).filter(([, value]) => value).map(([key]) => key)
selectedOptions(options) == selected(retouchKeys, options)

\* Four ifs of which the third, the one for whitenTeeth, is missing
promptCommandsSkipping(options) ==
    (IF options["enhanceSkin"] THEN <<retouchCommand("enhanceSkin")>> ELSE <<>>)
    \o (IF options["brightenEyes"] THEN <<retouchCommand("brightenEyes")>> ELSE <<>>)
    \o (IF options["reduceDarkCircles"]
        THEN <<retouchCommand("reduceDarkCircles")>> ELSE <<>>)

\* The promptCommands array that handleApplyRetouch builds with its four ifs.
promptCommands(options) ==
    (IF options["enhanceSkin"] THEN <<retouchCommand("enhanceSkin")>> ELSE <<>>)
    \o (IF options["brightenEyes"] THEN <<retouchCommand("brightenEyes")>> ELSE <<>>)
    \o (IF options["whitenTeeth"] THEN <<retouchCommand("whitenTeeth")>> ELSE <<>>)
    \o (IF options["reduceDarkCircles"]
        THEN <<retouchCommand("reduceDarkCircles")>> ELSE <<>>)

\* What renderImageWithEffectsToCanvas rejects with: the Event of img.onerror,
\* or the Error thrown when the canvas has no 2d context.
RenderRejections == {<<FALSE, "">>, <<TRUE, "Could not get canvas context">>}

\* The state of a panel that is not rendered, and of a panel just mounted.
PanelUnmounted ==
    /\ displayImage = null
    /\ activeFilter = [name |-> "None", intensity |-> 100]
    /\ retouchOptions = [k \in {retouchKeys[j] : j \in DOMAIN retouchKeys} |-> FALSE]
    /\ isRetouching = FALSE
    /\ retouchError = null
    /\ isDownloadModalOpen = FALSE

\* The state of a DownloadModal that is not rendered, and of one just mounted.
ModalUnmounted ==
    /\ format = "PNG"
    /\ jpegQuality = 92
    /\ targetSize = [isEnabled |-> FALSE, size |-> 100, unit |-> "KB"]
    /\ isProcessing = FALSE
    /\ downloadError = null

-----------------------------------------------------------------------------
(* What renderContent renders *)
renderContent(step, image) ==
    CASE step = "upload" -> "ImageUploader"
      [] step = "generation" -> "ImageGenerator"
      [] step = "choice" -> IF image # null THEN "EditorChoice" ELSE "nothing"
      [] step = "ai-edit" -> IF image # null THEN "ImageEditor" ELSE "nothing"
      [] step = "studio" -> IF image # null THEN "ResultDisplay" ELSE "nothing"
      [] OTHER -> "ImageUploader"

Rendered == renderContent(editingStep, originalImage)

\* A component that is no longer rendered loses its state, and the calls it
\* has in flight can no longer update it.
Orphaned(g) == [i \in DOMAIN g |-> [g[i] EXCEPT !.live = FALSE]]

\* ResultDisplay mounts the panel that shows originalImage ("Editor", or
\* "Original" beside the "Edited" one) with src; src is null when there is none.
MountPanel(src) ==
    /\ imageSrc' = src
    /\ displayImage' = src
    /\ activeFilter' = [name |-> "None", intensity |-> 100]
    /\ retouchOptions' = [k \in DOMAIN retouchOptions |-> FALSE]
    /\ isRetouching' = FALSE
    /\ retouchError' = null
    /\ isDownloadModalOpen' = FALSE
    /\ retouches' = Orphaned(retouches)

\* The panel keeps its state while ResultDisplay keeps it at the same place of
\* the tree: the one-panel and the two-panel layouts are different places.
PanelKept ==
    /\ Rendered = "ResultDisplay"
    /\ Rendered' = "ResultDisplay"
    /\ originalImage' = originalImage
    /\ (editedImage' = null) = (editedImage = null)

Unmount ==
    /\ IF PanelKept THEN UNCHANGED <<panelVars, retouches>>
       ELSE IF Rendered' = "ResultDisplay" THEN MountPanel(originalImage')
       ELSE MountPanel(null)
    /\ isDragging' = IF Rendered' = "ImageUploader" THEN isDragging ELSE FALSE
    /\ completedCrop' = IF Rendered' = "ImageEditor" THEN completedCrop ELSE null
    /\ IF Rendered' = "ImageGenerator"
       THEN UNCHANGED <<genVars, gens>>
       ELSE /\ genPrompt' = <<>>
            /\ genIsLoading' = FALSE
            /\ isUpscaling' = FALSE
            /\ genError' = null
            /\ generatedImage' = null
            /\ gens' = Orphaned(gens)

-----------------------------------------------------------------------------
Init ==
    /\ editingStep = "upload"
    /\ originalImage = null
    /\ editedImage = null
    /\ prompt = <<>>
    /\ isLoading = FALSE
    /\ error = null
    /\ uploads = <<>>
    /\ nUploads = 0
    /\ edits = <<>>
    /\ nEdits = 0
    /\ isDragging = FALSE
    /\ completedCrop = null
    /\ genPrompt = <<>>
    /\ genIsLoading = FALSE
    /\ isUpscaling = FALSE
    /\ genError = null
    /\ generatedImage = null
    /\ gens = <<>>
    /\ nGens = 0
    /\ imageSrc = null
    /\ PanelUnmounted
    /\ retouches = <<>>
    /\ nRetouches = 0
    /\ ModalUnmounted
    /\ dlPc = "idle"
    /\ quality = null
    /\ blob = null
    /\ nDownloads = 0
    /\ accepted = [op \in AiOperations |-> 0]
    /\ issued = [op \in AiOperations |-> 0]
    /\ encodes = <<>>
    /\ downloaded = null
    /\ afterReset = FALSE

\* The asynchronous operations started so far
Started == nUploads + nEdits + nGens + nRetouches

\* f with key k removed
Without(f, k) == [i \in DOMAIN f \ {k} |-> f[i]]

\* f with key k bound to v
With(f, k, v) == [i \in DOMAIN f \cup {k} |-> IF i = k THEN v ELSE f[i]]

-----------------------------------------------------------------------------
(* App.handleImageUpload, up to its await of fileToBase64 *)
handleImageUpload(file) ==
    /\ Started < MaxOps
    /\ error' = null
    /\ isLoading' = TRUE
    /\ nUploads' = nUploads + 1
    /\ uploads' = With(uploads, nUploads + 1, file)
    /\ afterReset' = FALSE
    /\ UNCHANGED <<editingStep, originalImage, editedImage, prompt, edits, nEdits>>

\* ImageUploader: the file input's change event.  The input is disabled while
\* isLoading and offers the accepted types.
handleFileChange(file) ==
    /\ Rendered = "ImageUploader"
    /\ ~isLoading
    /\ file \in AcceptedTypes
    /\ handleImageUpload(file)
    /\ UNCHANGED <<localVars, genVars, genFlight, counts, studioVars>>

\* ImageUploader: a drop on the drop zone, of one file or of something that
\* carries no file.
handleDrop(files) ==
    /\ Rendered = "ImageUploader"
    /\ isDragging' = FALSE
    /\ IF files # <<>>
       THEN handleImageUpload(files[1])
       ELSE UNCHANGED <<appVars, flightVars, afterReset>>
    /\ UNCHANGED <<completedCrop, genVars, genFlight, counts, studioVars>>

handleDragEnter ==
    /\ Rendered = "ImageUploader"
    /\ isDragging' = TRUE
    /\ UNCHANGED <<appVars, flightVars, completedCrop, genVars, genFlight, history, studioVars>>

handleDragLeave ==
    /\ Rendered = "ImageUploader"
    /\ isDragging' = FALSE
    /\ UNCHANGED <<appVars, flightVars, completedCrop, genVars, genFlight, history, studioVars>>

\* fileToBase64 resolves (reader.onload): the rest of handleImageUpload's try
\* block and its finally.
FileReaderOnLoad(id) ==
    /\ id \in DOMAIN uploads
    /\ originalImage' = <<"upload", id, uploads[id]>>
    /\ editedImage' = null
    /\ prompt' = <<>>
    /\ editingStep' = "choice"
    /\ isLoading' = FALSE
    /\ uploads' = Without(uploads, id)
    /\ UNCHANGED <<error, nUploads, edits, nEdits, nGens, nRetouches, history, dlVars>>
    /\ Unmount

\* fileToBase64 rejects (reader.onerror): the catch block and the finally.
FileReaderOnError(id) ==
    /\ id \in DOMAIN uploads
    /\ error' = <<"Failed to process image file. Please try another one.">>
    /\ isLoading' = FALSE
    /\ uploads' = Without(uploads, id)
    /\ UNCHANGED <<editingStep, originalImage, editedImage, prompt,
                   nUploads, edits, nEdits, localVars, genVars, genFlight, history, studioVars>>

-----------------------------------------------------------------------------
(* App.handleSubmitEdit, up to its await of editImageWithGemini *)
handleSubmitEdit(imageData) ==
    IF trim(prompt) = <<>>
    THEN /\ error' = <<"Please ensure you have a prompt written.">>
         /\ UNCHANGED <<editingStep, originalImage, editedImage, prompt, isLoading,
                        flightVars, history>>
    ELSE /\ Started < MaxOps
         /\ error' = null
         /\ isLoading' = TRUE
         /\ editedImage' = null
         /\ nEdits' = nEdits + 1
         /\ edits' = With(edits, nEdits + 1, [image |-> imageData, prompt |-> prompt])
         /\ accepted' = [accepted EXCEPT !["edit"] = @ + 1]
         /\ issued' = [issued EXCEPT !["edit"] = @ + 1]
         /\ UNCHANGED afterReset
         /\ UNCHANGED <<editingStep, originalImage, prompt, uploads, nUploads>>

\* ImageEditor.handleSubmit, behind the 'Apply AI Edit' button (disabled while
\* isLoading or while the prompt trims to nothing).  getCroppedImg resolves at
\* once, so onSubmit runs before any other event.
handleSubmit ==
    /\ Rendered = "ImageEditor"
    /\ ~(isLoading \/ trim(prompt) = <<>>)
    /\ IF isLoading \/ completedCrop = null \/ completedCrop[1] = 0
       THEN UNCHANGED <<appVars, flightVars, history>>
       ELSE handleSubmitEdit(<<"crop", originalImage[1], originalImage[2]>>)
    /\ UNCHANGED <<localVars, genVars, genFlight, studioVars>>

\* The onSubmit prop App hands to ImageEditor, called without the button's check
\* of the prompt.  The 'Apply AI Edit' button never does this (it is disabled
\* for a blank prompt); the call exercises handleSubmitEdit's own guard.
onSubmit ==
    /\ Rendered = "ImageEditor"
    /\ ~isLoading
    /\ handleSubmitEdit(<<"crop", originalImage[1], originalImage[2]>>)
    /\ UNCHANGED <<localVars, genVars, genFlight, studioVars>>

\* ReactCrop.onComplete (the crop widget is disabled while isLoading)
setCompletedCrop(width) ==
    /\ Rendered = "ImageEditor"
    /\ ~isLoading
    /\ completedCrop' = <<width>>
    /\ UNCHANGED <<appVars, flightVars, isDragging, genVars, genFlight, history, studioVars>>

\* The prompt textarea of ImageEditor (disabled while isLoading)
setPrompt(p) ==
    /\ Rendered = "ImageEditor"
    /\ ~isLoading
    /\ prompt' = p
    /\ UNCHANGED <<editingStep, originalImage, editedImage, isLoading, error,
                   flightVars, localVars, genVars, genFlight, history, studioVars>>

\* editImageWithGemini resolves: the rest of handleSubmitEdit's try block and
\* its finally.
EditResolves(id) ==
    /\ id \in DOMAIN edits
    /\ editedImage' = <<"edited", id>>
    /\ editingStep' = "studio"
    /\ isLoading' = FALSE
    /\ edits' = Without(edits, id)
    /\ UNCHANGED <<originalImage, prompt, error, uploads, nUploads, nEdits,
                   nGens, nRetouches, history, dlVars>>
    /\ Unmount

\* A catch block that calls editImageWithGemini again instead of reporting the
\* failure: the automatic retry the wrapper does not have.
EditRejectsRetrying(id, err) ==
    /\ id \in DOMAIN edits
    /\ Started < MaxOps
    /\ nEdits' = nEdits + 1
    /\ edits' = With(Without(edits, id), nEdits + 1, edits[id])
    /\ issued' = [issued EXCEPT !["edit"] = @ + 1]
    /\ UNCHANGED <<appVars, uploads, nUploads, localVars, genVars, genFlight,
                   accepted, afterReset, studioVars>>

\* editImageWithGemini rejects: the catch block and the finally.
EditRejects(id, err) ==
    /\ id \in DOMAIN edits
    /\ error' = <<"Editing failed: ", errorMessage(err, "An unknown error occurred.")>>
    /\ isLoading' = FALSE
    /\ edits' = Without(edits, id)
    /\ UNCHANGED <<editingStep, originalImage, editedImage, prompt, uploads, nUploads,
                   nEdits, localVars, genVars, genFlight, history, studioVars>>

-----------------------------------------------------------------------------
(* The step changes of App that are plain setEditingStep calls *)
setEditingStep(step) ==
    /\ editingStep' = step
    /\ afterReset' = (afterReset /\ step # "generation")
    /\ UNCHANGED <<originalImage, editedImage, prompt, isLoading, error,
                   flightVars, nGens, nRetouches, counts, dlVars>>
    /\ Unmount

\* ImageUploader: 'Generate an image with AI' (disabled while isLoading)
onStartGeneration ==
    /\ Rendered = "ImageUploader"
    /\ ~isLoading
    /\ setEditingStep("generation")

\* EditorChoice: 'AI Magic Edit'
onAiEdit ==
    /\ Rendered = "EditorChoice"
    /\ setEditingStep("ai-edit")

\* EditorChoice: 'Manual Studio'
onManualEdit ==
    /\ Rendered = "EditorChoice"
    /\ setEditingStep("studio")

\* ImageEditor: 'Back' (disabled while isLoading)
onBackFromEditor ==
    /\ Rendered = "ImageEditor"
    /\ ~isLoading
    /\ setEditingStep("choice")

\* App.handleReset
handleReset ==
    /\ originalImage' = null
    /\ editedImage' = null
    /\ prompt' = <<>>
    /\ error' = null
    /\ isLoading' = FALSE
    /\ editingStep' = "upload"
    /\ afterReset' = TRUE
    /\ UNCHANGED <<flightVars, nGens, nRetouches, counts, dlVars>>
    /\ Unmount

\* The buttons that call handleReset: EditorChoice 'Or upload a different photo',
\* ImageEditor 'Upload a different photo' (disabled while isLoading),
\* ResultDisplay 'Start Over'.
onReset ==
    /\ \/ Rendered = "EditorChoice"
       \/ Rendered = "ImageEditor" /\ ~isLoading
       \/ Rendered = "ResultDisplay"
    /\ handleReset

\* ErrorAlert's close button in App
onCloseError ==
    /\ error # null
    /\ error' = null
    /\ UNCHANGED <<editingStep, originalImage, editedImage, prompt, isLoading,
                   flightVars, localVars, genVars, genFlight, history, studioVars>>

-----------------------------------------------------------------------------
(* ImageGenerator *)

\* The prompt textarea (disabled while isLoading or isUpscaling)
setGenPrompt(p) ==
    /\ Rendered = "ImageGenerator"
    /\ ~(genIsLoading \/ isUpscaling)
    /\ genPrompt' = p
    /\ UNCHANGED <<appVars, flightVars, localVars, genIsLoading, isUpscaling, genError,
                   generatedImage, genFlight, history, studioVars>>

\* handleGenerate without its check of the prompt
handleGenerateUnguarded ==
    /\ Started < MaxOps
    /\ genIsLoading' = TRUE
    /\ genError' = null
    /\ generatedImage' = null
    /\ nGens' = nGens + 1
    /\ gens' = With(gens, nGens + 1,
                    [kind |-> "generate", prompt |-> genPrompt, live |-> TRUE])
    /\ accepted' = [accepted EXCEPT !["generate"] = @ + 1]
    /\ issued' = [issued EXCEPT !["generate"] = @ + 1]
    /\ UNCHANGED <<genPrompt, isUpscaling, afterReset>>

\* ImageGenerator.handleGenerate, up to its await of generateImageWithGemini
handleGenerate ==
    IF trim(genPrompt) = <<>>
    THEN /\ genError' = <<"Please enter a prompt to generate an image.">>
         /\ UNCHANGED <<genPrompt, genIsLoading, isUpscaling, generatedImage,
                        genFlight, history>>
    ELSE /\ Started < MaxOps
         /\ genIsLoading' = TRUE
         /\ genError' = null
         /\ generatedImage' = null
         /\ nGens' = nGens + 1
         /\ gens' = With(gens, nGens + 1,
                         [kind |-> "generate", prompt |-> genPrompt, live |-> TRUE])
         /\ accepted' = [accepted EXCEPT !["generate"] = @ + 1]
         /\ issued' = [issued EXCEPT !["generate"] = @ + 1]
         /\ UNCHANGED afterReset
         /\ UNCHANGED <<genPrompt, isUpscaling>>

\* The buttons that call handleGenerate: 'Generate' (disabled while isLoading,
\* isUpscaling or while the prompt trims to nothing) and 'Generate Again' (shown
\* with a generated image, disabled while isLoading or isUpscaling).
onGenerate ==
    /\ Rendered = "ImageGenerator"
    /\ ~(genIsLoading \/ isUpscaling)
    /\ \/ trim(genPrompt) # <<>>
       \/ generatedImage # null
    /\ handleGenerate
    /\ UNCHANGED <<appVars, flightVars, localVars, studioVars>>

\* generateImageWithGemini resolves: the rest of the try block and the finally.
\* A call whose ImageGenerator is gone updates nothing.
GenerateResolves(id) ==
    /\ id \in DOMAIN gens
    /\ gens[id].kind = "generate"
    /\ gens' = Without(gens, id)
    /\ IF gens[id].live
       THEN /\ generatedImage' = <<"generated", id>>
            /\ genIsLoading' = FALSE
            /\ UNCHANGED <<genPrompt, isUpscaling, genError>>
       ELSE UNCHANGED genVars
    /\ UNCHANGED <<appVars, flightVars, localVars, nGens, history, studioVars>>

\* generateImageWithGemini rejects: the catch block and the finally.
GenerateRejects(id, err) ==
    /\ id \in DOMAIN gens
    /\ gens[id].kind = "generate"
    /\ gens' = Without(gens, id)
    /\ IF gens[id].live
       THEN /\ genError' = <<"Generation failed: ",
                             errorMessage(err, "An unknown error occurred.")>>
            /\ genIsLoading' = FALSE
            /\ UNCHANGED <<genPrompt, isUpscaling, generatedImage>>
       ELSE UNCHANGED genVars
    /\ UNCHANGED <<appVars, flightVars, localVars, nGens, history, studioVars>>

\* ImageGenerator.handleUpscale, up to its await of upscaleImageWithGemini
handleUpscale ==
    IF generatedImage = null
    THEN UNCHANGED <<genVars, genFlight, history>>
    ELSE /\ Started < MaxOps
         /\ isUpscaling' = TRUE
         /\ genError' = null
         /\ nGens' = nGens + 1
         /\ gens' = With(gens, nGens + 1,
                         [kind |-> "upscale", prompt |-> <<>>, live |-> TRUE])
         /\ accepted' = [accepted EXCEPT !["upscale"] = @ + 1]
         /\ issued' = [issued EXCEPT !["upscale"] = @ + 1]
         /\ UNCHANGED afterReset
         /\ UNCHANGED <<genPrompt, genIsLoading, generatedImage>>

\* 'Upscale' (shown with a generated image, disabled while isLoading or isUpscaling)
onUpscale ==
    /\ Rendered = "ImageGenerator"
    /\ generatedImage # null
    /\ ~(genIsLoading \/ isUpscaling)
    /\ handleUpscale
    /\ UNCHANGED <<appVars, flightVars, localVars, studioVars>>

UpscaleResolves(id) ==
    /\ id \in DOMAIN gens
    /\ gens[id].kind = "upscale"
    /\ gens' = Without(gens, id)
    /\ IF gens[id].live
       THEN /\ generatedImage' = <<"generated", id>>
            /\ isUpscaling' = FALSE
            /\ UNCHANGED <<genPrompt, genIsLoading, genError>>
       ELSE UNCHANGED genVars
    /\ UNCHANGED <<appVars, flightVars, localVars, nGens, history, studioVars>>

UpscaleRejects(id, err) ==
    /\ id \in DOMAIN gens
    /\ gens[id].kind = "upscale"
    /\ gens' = Without(gens, id)
    /\ IF gens[id].live
       THEN /\ genError' = <<"Upscaling failed: ",
                             errorMessage(err, "An unknown error occurred.")>>
            /\ isUpscaling' = FALSE
            /\ UNCHANGED <<genPrompt, genIsLoading, generatedImage>>
       ELSE UNCHANGED genVars
    /\ UNCHANGED <<appVars, flightVars, localVars, nGens, history, studioVars>>

\* ErrorAlert's close button in ImageGenerator
onCloseGenError ==
    /\ Rendered = "ImageGenerator"
    /\ genError # null
    /\ genError' = null
    /\ UNCHANGED <<appVars, flightVars, localVars, genPrompt, genIsLoading, isUpscaling,
                   generatedImage, genFlight, history, studioVars>>

\* 'Back to Upload' (disabled while isLoading or isUpscaling)
onBackFromGenerator ==
    /\ Rendered = "ImageGenerator"
    /\ ~(genIsLoading \/ isUpscaling)
    /\ setEditingStep("upload")

\* App.handleImageGenerated
handleImageGenerated(base64Data) ==
    /\ originalImage' = <<"generated", base64Data[2], "image/png">>
    /\ editedImage' = null
    /\ prompt' = <<>>
    /\ error' = null
    /\ editingStep' = "studio"
    /\ UNCHANGED <<isLoading, flightVars, nGens, nRetouches, history, dlVars>>
    /\ Unmount

\* ImageGenerator.handleConfirm, behind 'Use this Image' (shown with a generated
\* image while neither isLoading nor isUpscaling)
handleConfirm ==
    /\ Rendered = "ImageGenerator"
    /\ ~(genIsLoading \/ isUpscaling)
    /\ generatedImage # null
    /\ handleImageGenerated(generatedImage)

-----------------------------------------------------------------------------
(* ImageControlPanel *)

\* A filter button: setActiveFilter({ name: filter.name, intensity: 100 })
setActiveFilter(k) ==
    /\ imageSrc # null
    /\ activeFilter' = [name |-> filters[k].name, intensity |-> 100]
    /\ UNCHANGED <<imageSrc, displayImage, retouchOptions, isRetouching, retouchError,
                   isDownloadModalOpen>>
    /\ UNCHANGED <<appVars, flightVars, localVars, genVars, genFlight, panelFlight,
                   dlVars, history>>

\* The intensity slider, rendered unless the active filter is 'None'
setIntensity(value) ==
    /\ imageSrc # null
    /\ activeFilter.name # "None"
    /\ value \in IntensityMin..IntensityMax
    /\ activeFilter' = [activeFilter EXCEPT !.intensity = value]
    /\ UNCHANGED <<imageSrc, displayImage, retouchOptions, isRetouching, retouchError,
                   isDownloadModalOpen>>
    /\ UNCHANGED <<appVars, flightVars, localVars, genVars, genFlight, panelFlight,
                   dlVars, history>>

\* The parent renders the panel with another imageSrc: the useEffect on imageSrc
imageSrcChanges(src) ==
    /\ imageSrc # null
    /\ src # imageSrc
    /\ imageSrc' = src
    /\ displayImage' = src
    /\ activeFilter' = [name |-> "None", intensity |-> 100]
    /\ UNCHANGED <<retouchOptions, isRetouching, retouchError, isDownloadModalOpen>>
    /\ UNCHANGED <<appVars, flightVars, localVars, genVars, genFlight, panelFlight,
                   dlVars, history>>

\* A retouch checkbox (disabled while isRetouching)
setRetouchOptions(key) ==
    /\ imageSrc # null
    /\ ~isRetouching
    /\ retouchOptions' = [retouchOptions EXCEPT ![key] = ~@]
    /\ UNCHANGED <<imageSrc, displayImage, activeFilter, isRetouching, retouchError,
                   isDownloadModalOpen>>
    /\ UNCHANGED <<appVars, flightVars, localVars, genVars, genFlight, panelFlight,
                   dlVars, history>>

\* ImageControlPanel.handleApplyRetouch, up to its await of
\* renderImageWithEffectsToCanvas
handleApplyRetouch ==
    IF Len(selectedOptions(retouchOptions)) = 0
    THEN /\ retouchError' = <<"Please select at least one retouch option.">>
         /\ UNCHANGED <<isRetouching, panelFlight, history>>
    ELSE /\ Started < MaxOps
         /\ retouchError' = null
         /\ isRetouching' = TRUE
         /\ nRetouches' = nRetouches + 1
         /\ retouches' = With(retouches, nRetouches + 1,
                              [awaits |-> "canvas", options |-> retouchOptions,
                               image |-> displayImage, commands |-> <<>>,
                               live |-> TRUE])
         /\ accepted' = [accepted EXCEPT !["retouch"] = @ + 1]
         /\ UNCHANGED <<issued, afterReset>>

\* 'Apply AI Retouch' (disabled while isRetouching or while no option is selected)
onApplyRetouch ==
    /\ imageSrc # null
    /\ ~(isRetouching \/ ~(\E k \in DOMAIN retouchOptions : retouchOptions[k]))
    /\ handleApplyRetouch
    /\ UNCHANGED <<imageSrc, displayImage, activeFilter, retouchOptions,
                   isDownloadModalOpen>>
    /\ UNCHANGED <<appVars, flightVars, localVars, genVars, genFlight, dlVars>>

\* handleApplyRetouch called without the button's check of the options.  The
\* 'Apply AI Retouch' button never does this (it is disabled while no option is
\* selected); the call exercises the handler's own guard.
handleApplyRetouchCalled ==
    /\ imageSrc # null
    /\ ~isRetouching
    /\ handleApplyRetouch
    /\ UNCHANGED <<imageSrc, displayImage, activeFilter, retouchOptions,
                   isDownloadModalOpen>>
    /\ UNCHANGED <<appVars, flightVars, localVars, genVars, genFlight, dlVars>>

\* renderImageWithEffectsToCanvas resolves: handleApplyRetouch builds the prompt
\* and calls editImageWithGemini.
RetouchCanvasResolves(id) ==
    /\ id \in DOMAIN retouches
    /\ retouches[id].awaits = "canvas"
    /\ retouches' = [retouches EXCEPT ![id].awaits = "edit",
                                      ![id].commands = promptCommands(retouches[id].options)]
    /\ issued' = [issued EXCEPT !["retouch"] = @ + 1]
    /\ UNCHANGED <<appVars, flightVars, localVars, genVars, genFlight, panelVars,
                   nRetouches, dlVars, accepted, afterReset>>

\* What handleApplyRetouch's catch block and finally do, with the rejection err.
\* A run whose panel is gone updates nothing.
RetouchFails(id, err) ==
    /\ retouches' = Without(retouches, id)
    /\ IF retouches[id].live
       THEN /\ retouchError' = <<"Retouch failed: ",
                                 errorMessage(err, "An unknown error occurred.")>>
            /\ isRetouching' = FALSE
       ELSE UNCHANGED <<retouchError, isRetouching>>
    /\ UNCHANGED <<imageSrc, displayImage, activeFilter, retouchOptions,
                   isDownloadModalOpen>>
    /\ UNCHANGED <<appVars, flightVars, localVars, genVars, genFlight, nRetouches,
                   dlVars, history>>

\* renderImageWithEffectsToCanvas rejects
RetouchCanvasRejects(id, err) ==
    /\ id \in DOMAIN retouches
    /\ retouches[id].awaits = "canvas"
    /\ RetouchFails(id, err)

\* editImageWithGemini rejects
RetouchRejects(id, err) ==
    /\ id \in DOMAIN retouches
    /\ retouches[id].awaits = "edit"
    /\ RetouchFails(id, err)

\* editImageWithGemini resolves: the rest of the try block and the finally
RetouchResolves(id) ==
    /\ id \in DOMAIN retouches
    /\ retouches[id].awaits = "edit"
    /\ retouches' = Without(retouches, id)
    /\ IF retouches[id].live
       THEN /\ displayImage' = <<"retouched", id>>
            /\ isRetouching' = FALSE
       ELSE UNCHANGED <<displayImage, isRetouching>>
    /\ UNCHANGED <<imageSrc, activeFilter, retouchOptions, retouchError,
                   isDownloadModalOpen>>
    /\ UNCHANGED <<appVars, flightVars, localVars, genVars, genFlight, nRetouches,
                   dlVars, history>>

-----------------------------------------------------------------------------
(* DownloadModal *)

\* The modal's state variables hold the state of the DownloadModal that was
\* mounted last; a handleDownload still running after the modal was closed keeps
\* calling the setters of that instance.  The model follows one handleDownload
\* at a time: the modal is opened again only when none is running.

\* The numbers handleDownload computes with are IEEE 754 doubles.  A double
\* below 1 is the pair <<hi, lo>> that stands for (hi * 2^28 + lo) * 2^-57.
Limb == 2^28

\* let quality = 0.95
InitialQuality == <<510027366, 107374176>>

\* A step of 0.025
QualityStepHalved == <<13421772, 214748365>>

\* The 0.05 of quality -= 0.05
QualityStep == <<26843545, 161061274>>

\* The 0.1 of quality > 0.1 and of Math.max(0.1, quality)
QualityFloor == <<53687091, 53687092>>

\* a > b on doubles
FGt(a, b) == a[1] > b[1] \/ (a[1] = b[1] /\ a[2] > b[2])

\* Math.max(a, b)
FMax(a, b) == IF FGt(b, a) THEN b ELSE a

\* The distance between neighbouring doubles around d, in units of 2^-57
Ulp(d) ==
    IF d[1] >= 2^28 THEN 16
    ELSE IF d[1] >= 2^27 THEN 8
    ELSE IF d[1] >= 2^26 THEN 4
    ELSE IF d[1] >= 2^25 THEN 2
    ELSE 1

\* The double nearest to the exact value d, ties to the even mantissa
RoundToEven(d) ==
    LET u == Ulp(d)
        r == d[2] % u
        below == d[2] - r
        down == <<d[1], below>>
        up == IF below + u = Limb THEN <<d[1] + 1, 0>> ELSE <<d[1], below + u>>
    IN  IF 2 * r < u THEN down
        ELSE IF 2 * r > u THEN up
        ELSE IF (below \div u) % 2 = 0 THEN down ELSE up

\* a - b on doubles: the exact difference, rounded
FSub(a, b) ==
    RoundToEven(IF a[2] >= b[2]
                THEN <<a[1] - b[1], a[2] - b[2]>>
                ELSE <<a[1] - b[1] - 1, a[2] + Limb - b[2]>>)

\* The quality q in hundredths, rounded to the nearest
Hundredths(q) == ((q[1] \div 512) * 100 + 2^19) \div 2^20

\* targetSize.size * (targetSize.unit === 'KB' ? 1024 : 1024 * 1024)
targetBytes(ts) == ts.size * (IF ts.unit = "KB" THEN 1024 ELSE 1024 * 1024)

\* A loop condition that does not look at the blob
loopContinuesPastFit(size, target, q) == FGt(q, QualityFloor)

\* A loop condition that lets one byte too many pass
loopContinuesOffByOne(size, target, q) == size > target + 1 /\ FGt(q, QualityFloor)

\* The loop condition: blob.size > targetBytes && quality > 0.1
loopContinues(size, target, q) == size > target /\ FGt(q, QualityFloor)

\* The values the size input is given: Math.max(1, +e.target.value) makes them
\* sizes of at least 1.
SizeInputs == {0, 1}

\* The positions the quality slider is moved to (min 1, max 100)
QualitySlider == {1, 100}

\* The sizes of the blobs the encoder produces
BlobSizes == {1024, 1025, 1048577}

\* What getBlob and getCanvasPromise reject with
BlobRejection ==
    <<TRUE, "Canvas to Blob conversion failed. The image may be tainted by cross-origin data.">>

\* ImageControlPanel: the 'Download' button, setIsDownloadModalOpen(true)
OpenDownloadModal ==
    /\ imageSrc # null
    /\ ~isDownloadModalOpen
    /\ dlPc = "idle"
    /\ isDownloadModalOpen' = TRUE
    /\ format' = "PNG"
    /\ jpegQuality' = 92
    /\ targetSize' = [isEnabled |-> FALSE, size |-> 100, unit |-> "KB"]
    /\ isProcessing' = FALSE
    /\ downloadError' = null
    /\ UNCHANGED <<imageSrc, displayImage, activeFilter, retouchOptions, isRetouching,
                   retouchError>>
    /\ UNCHANGED <<dlPc, quality, blob, nDownloads, encodes, downloaded>>
    /\ UNCHANGED <<appVars, flightVars, localVars, genVars, genFlight, panelFlight, history>>

\* onClose from the user: the backdrop (any time) or 'Cancel' (disabled while
\* isProcessing)
onClose ==
    /\ isDownloadModalOpen
    /\ isDownloadModalOpen' = FALSE
    /\ UNCHANGED <<imageSrc, displayImage, activeFilter, retouchOptions, isRetouching,
                   retouchError>>
    /\ UNCHANGED <<appVars, flightVars, localVars, genVars, genFlight, panelFlight,
                   dlVars, history>>

\* What a control of the open modal leaves alone
ModalControl ==
    /\ isDownloadModalOpen
    /\ ~isProcessing
    /\ UNCHANGED <<isProcessing, downloadError, dlPc, quality, blob, nDownloads,
                   encodes, downloaded>>
    /\ UNCHANGED <<appVars, flightVars, localVars, genVars, genFlight, panelVars,
                   panelFlight, history>>

\* The 'PNG' and 'JPEG' buttons
setFormat(f) ==
    /\ ModalControl
    /\ format' = f
    /\ UNCHANGED <<jpegQuality, targetSize>>

\* The quality slider, rendered for JPEG without a target size
setJpegQuality(value) ==
    /\ ModalControl
    /\ format = "JPEG"
    /\ ~targetSize.isEnabled
    /\ jpegQuality' = value
    /\ UNCHANGED <<format, targetSize>>

\* The 'Target specific file size' checkbox, rendered for JPEG
setTargetEnabled(checked) ==
    /\ ModalControl
    /\ format = "JPEG"
    /\ targetSize' = [targetSize EXCEPT !.isEnabled = checked]
    /\ UNCHANGED <<format, jpegQuality>>

\* The size input, rendered with the target size enabled
setTargetSizeValue(value) ==
    /\ ModalControl
    /\ format = "JPEG"
    /\ targetSize.isEnabled
    /\ targetSize' = [targetSize EXCEPT !.size = IF value > 1 THEN value ELSE 1]
    /\ UNCHANGED <<format, jpegQuality>>

\* The unit select, rendered with the target size enabled
setTargetUnit(unit) ==
    /\ ModalControl
    /\ format = "JPEG"
    /\ targetSize.isEnabled
    /\ targetSize' = [targetSize EXCEPT !.unit = unit]
    /\ UNCHANGED <<format, jpegQuality>>


\* DownloadModal.handleDownload, up to its await of getCanvasPromise ('Download'
\* is disabled while isProcessing)
handleDownload ==
    /\ isDownloadModalOpen
    /\ ~isProcessing
    /\ dlPc = "idle"
    /\ nDownloads < MaxDownloads
    /\ isProcessing' = TRUE
    /\ downloadError' = null
    /\ dlPc' = "canvas"
    /\ quality' = null
    /\ blob' = null
    /\ nDownloads' = nDownloads + 1
    /\ encodes' = <<>>
    /\ downloaded' = null
    /\ UNCHANGED <<format, jpegQuality, targetSize>>
    /\ UNCHANGED <<appVars, flightVars, localVars, genVars, genFlight, panelVars,
                   panelFlight, history>>

\* getCanvasPromise resolves: handleDownload makes its first getBlob call.
CanvasResolves ==
    /\ dlPc = "canvas"
    /\ IF format = "PNG"
       THEN /\ encodes' = <<<<"image/png">>>>
            /\ dlPc' = "blob"
            /\ UNCHANGED quality
       ELSE IF targetSize.isEnabled
       THEN /\ quality' = InitialQuality
            /\ encodes' = <<<<"image/jpeg", Hundredths(InitialQuality)>>>>
            /\ dlPc' = "loop"
       ELSE /\ encodes' = <<<<"image/jpeg", jpegQuality>>>>
            /\ dlPc' = "blob"
            /\ UNCHANGED quality
    /\ UNCHANGED <<format, jpegQuality, targetSize, isProcessing, downloadError, blob,
                   nDownloads, downloaded>>
    /\ UNCHANGED <<appVars, flightVars, localVars, genVars, genFlight, panelVars,
                   panelFlight, history>>

\* The catch block of handleDownload and its finally
DownloadFailsClosing(err) ==
    /\ downloadError' = <<errorMessage(err, "An unknown error occurred during processing.")>>
    /\ isProcessing' = FALSE
    /\ dlPc' = "idle"
    /\ isDownloadModalOpen' = FALSE
    /\ UNCHANGED <<format, jpegQuality, targetSize, quality, blob, nDownloads, encodes,
                   downloaded>>
    /\ UNCHANGED <<imageSrc, displayImage, activeFilter, retouchOptions, isRetouching,
                   retouchError>>
    /\ UNCHANGED <<appVars, flightVars, localVars, genVars, genFlight, panelFlight, history>>

DownloadFails(err) ==
    /\ downloadError' = <<errorMessage(err, "An unknown error occurred during processing.")>>
    /\ isProcessing' = FALSE
    /\ dlPc' = "idle"
    /\ UNCHANGED <<format, jpegQuality, targetSize, quality, blob, nDownloads, encodes,
                   downloaded>>
    /\ UNCHANGED <<appVars, flightVars, localVars, genVars, genFlight, panelVars,
                   panelFlight, history>>

\* getCanvasPromise rejects: the image does not load (the rejection is the
\* error event) or the canvas has no 2d context.
CanvasRejects(err) ==
    /\ dlPc = "canvas"
    /\ DownloadFails(err)

\* getBlob rejects: canvas.toBlob produced no blob.
BlobRejects ==
    /\ dlPc \in {"blob", "loop"}
    /\ DownloadFails(BlobRejection)

\* getBlob resolves with a blob of the given size: in the target-size path the
\* loop either reduces the quality and encodes again or ends; then the blob is
\* handed to the browser, onClose is called and the finally block runs.
BlobResolves(size) ==
    /\ dlPc \in {"blob", "loop"}
    /\ blob' = <<size>>
    /\ IF dlPc = "loop" /\ loopContinues(size, targetBytes(targetSize), quality)
       THEN /\ quality' = FSub(quality, QualityStep)
            /\ encodes' = Append(encodes,
                                 <<"image/jpeg", Hundredths(FMax(QualityFloor, quality'))>>)
            /\ UNCHANGED <<dlPc, isProcessing, downloaded, isDownloadModalOpen>>
       ELSE /\ downloaded' = <<size>> \o Tail(encodes[Len(encodes)])
            /\ isDownloadModalOpen' = FALSE
            /\ isProcessing' = FALSE
            /\ dlPc' = "idle"
            /\ UNCHANGED <<quality, encodes>>
    /\ UNCHANGED <<format, jpegQuality, targetSize, downloadError, nDownloads>>
    /\ UNCHANGED <<imageSrc, displayImage, activeFilter, retouchOptions, isRetouching,
                   retouchError>>
    /\ UNCHANGED <<appVars, flightVars, localVars, genVars, genFlight, panelFlight, history>>

-----------------------------------------------------------------------------
Next ==
    \/ \E file \in FileTypes : handleFileChange(file)
    \/ \E files \in {<<>>} \cup {<<t>> : t \in FileTypes} : handleDrop(files)
    \/ handleDragEnter
    \/ handleDragLeave
    \/ \E id \in DOMAIN uploads : FileReaderOnLoad(id)
    \/ \E id \in DOMAIN uploads : FileReaderOnError(id)
    \/ handleSubmit
    \/ \E width \in {0, 100} : setCompletedCrop(width)
    \/ \E p \in Prompts : setPrompt(p)
    \/ \E id \in DOMAIN edits : EditResolves(id)
    \/ \E id \in DOMAIN edits, err \in Rejections : EditRejects(id, err)
    \/ onStartGeneration
    \/ onAiEdit
    \/ onManualEdit
    \/ onBackFromEditor
    \/ onReset
    \/ onCloseError
    \/ \E p \in Prompts : setGenPrompt(p)
    \/ onGenerate
    \/ \E id \in DOMAIN gens : GenerateResolves(id)
    \/ \E id \in DOMAIN gens, err \in Rejections : GenerateRejects(id, err)
    \/ onUpscale
    \/ \E id \in DOMAIN gens : UpscaleResolves(id)
    \/ \E id \in DOMAIN gens, err \in Rejections : UpscaleRejects(id, err)
    \/ onCloseGenError
    \/ onBackFromGenerator
    \/ handleConfirm

vars == <<appVars, flightVars, localVars, genVars, genFlight, panelVars, panelFlight,
          dlVars, history>>

Spec == Init /\ [][Next]_vars

\* The AI retouch of the panel
RetouchNext ==
    \/ \E k \in DOMAIN retouchKeys : setRetouchOptions(retouchKeys[k])
    \/ onApplyRetouch
    \/ \E id \in DOMAIN retouches : RetouchCanvasResolves(id)
    \/ \E id \in DOMAIN retouches, err \in RenderRejections : RetouchCanvasRejects(id, err)
    \/ \E id \in DOMAIN retouches : RetouchResolves(id)
    \/ \E id \in DOMAIN retouches, err \in Rejections : RetouchRejects(id, err)

NextAI == Next \/ RetouchNext

\* The whole application with the AI retouch of the studio panel
SpecAI == Init /\ [][NextAI]_vars

\* The application with handleSubmitEdit also called directly
NextPrompt == Next \/ onSubmit

SpecPrompt == Init /\ [][NextPrompt]_vars

\* The studio with the image of one upload, as 'Manual Studio' shows it
InitStudio ==
    /\ editingStep = "studio"
    /\ originalImage = <<"upload", 1, "image/jpeg">>
    /\ editedImage = null
    /\ prompt = <<>>
    /\ isLoading = FALSE
    /\ error = null
    /\ uploads = <<>>
    /\ nUploads = 1
    /\ edits = <<>>
    /\ nEdits = 0
    /\ isDragging = FALSE
    /\ completedCrop = null
    /\ genPrompt = <<>>
    /\ genIsLoading = FALSE
    /\ isUpscaling = FALSE
    /\ genError = null
    /\ generatedImage = null
    /\ gens = <<>>
    /\ nGens = 0
    /\ imageSrc = originalImage
    /\ displayImage = originalImage
    /\ activeFilter = [name |-> "None", intensity |-> 100]
    /\ retouchOptions = [k \in {retouchKeys[j] : j \in DOMAIN retouchKeys} |-> FALSE]
    /\ isRetouching = FALSE
    /\ retouchError = null
    /\ isDownloadModalOpen = FALSE
    /\ retouches = <<>>
    /\ nRetouches = 0
    /\ ModalUnmounted
    /\ dlPc = "idle"
    /\ quality = null
    /\ blob = null
    /\ nDownloads = 0
    /\ accepted = [op \in AiOperations |-> 0]
    /\ issued = [op \in AiOperations |-> 0]
    /\ encodes = <<>>
    /\ downloaded = null
    /\ afterReset = FALSE

\* The images the parent of the panel gives it
PanelImages == {<<"upload", 1, "image/jpeg">>, <<"upload", 2, "image/jpeg">>}

\* The filters of the studio panel
PanelNext ==
    \/ \E k \in DOMAIN filters : setActiveFilter(k)
    \/ \E value \in IntensityMin..IntensityMax : setIntensity(value)
    \/ \E src \in PanelImages : imageSrcChanges(src)

SpecPanel == InitStudio /\ [][PanelNext]_vars

\* The AI retouch of the studio panel, with handleApplyRetouch also called
\* directly
RetouchPanelNext == RetouchNext \/ handleApplyRetouchCalled

SpecRetouch == InitStudio /\ [][RetouchPanelNext]_vars

\* What settles a promise handleDownload awaits
DownloadSettles ==
    \/ CanvasResolves
    \/ \E err \in RenderRejections : CanvasRejects(err)
    \/ \E size \in BlobSizes : BlobResolves(size)
    \/ BlobRejects

\* The download modal of the studio panel
DownloadNext ==
    \/ OpenDownloadModal
    \/ onClose
    \/ \E f \in {"PNG", "JPEG"} : setFormat(f)
    \/ \E value \in QualitySlider : setJpegQuality(value)
    \/ \E checked \in BOOLEAN : setTargetEnabled(checked)
    \/ \E value \in SizeInputs : setTargetSizeValue(value)
    \/ \E unit \in {"KB", "MB"} : setTargetUnit(unit)
    \/ handleDownload
    \/ DownloadSettles

SpecDownload == InitStudio /\ [][DownloadNext]_vars

\* The image load and canvas.toBlob always call back, so every promise
\* handleDownload awaits is settled.
FairSpecDownload == SpecDownload /\ WF_vars(DownloadSettles)

-----------------------------------------------------------------------------
(* Properties of the App step machine *)

\* The six state variables of App are as they are after construction.
AppIsInitial ==
    /\ editingStep = "upload"
    /\ originalImage = null
    /\ editedImage = null
    /\ prompt = <<>>
    /\ error = null
    /\ isLoading = FALSE

\* The edges claim C1 allows editingStep to follow.
AllowedEdges ==
    {<<"upload", "generation">>, <<"generation", "upload">>, <<"upload", "choice">>,
     <<"choice", "ai-edit">>, <<"choice", "studio">>, <<"ai-edit", "choice">>,
     <<"ai-edit", "studio">>, <<"generation", "studio">>}
    \cup {<<step, "upload">> : step \in EditingStep}

\* C1: editingStep starts at 'upload', always holds one of the five steps, and
\* every change of it follows one of the allowed edges (so 'studio' never
\* changes to 'choice' or 'ai-edit').
C1_StepEdges ==
    /\ editingStep = "upload"
    /\ [](editingStep \in EditingStep)
    /\ [][editingStep' # editingStep => <<editingStep, editingStep'>> \in AllowedEdges]_vars

\* C8: every file ImageUploader passes to onImageUpload (it is then being
\* read) has MIME type image/png, image/jpeg or image/webp.
C8_OnlyAcceptedTypes == \A id \in DOMAIN uploads : uploads[id] \in AcceptedTypes

\* C9: handleReset sets App's state to the initial state, and the state then
\* stays initial until the user starts a new upload or generation: nothing that
\* was started before the reset changes it.
C9_ResetIsFinal == afterReset => AppIsInitial

-----------------------------------------------------------------------------
(* Properties of the AI requests *)

\* The prompt p is empty or whitespace-only.
Blank(p) == trim(p) = <<>>

\* C10: no edit request and no generation request is in flight with a blank
\* prompt; handleSubmitEdit and handleGenerate, called with a blank prompt, set
\* their error message, issue nothing and leave the loading flag and the images
\* as they are.
C10_NoBlankPrompt ==
    /\ [](\A id \in DOMAIN edits : ~Blank(edits[id].prompt))
    /\ [](\A id \in DOMAIN gens : gens[id].kind = "generate" => ~Blank(gens[id].prompt))
    /\ [][onSubmit /\ Blank(prompt) =>
            /\ error' = <<"Please ensure you have a prompt written.">>
            /\ UNCHANGED <<isLoading, originalImage, editedImage, flightVars, issued>>]_vars
    /\ [][onGenerate /\ Blank(genPrompt) =>
            /\ genError' = <<"Please enter a prompt to generate an image.">>
            /\ UNCHANGED <<genIsLoading, generatedImage, genFlight, issued>>]_vars

\* 'Generate Again' was clicked with a blank prompt: the message is shown, the
\* generated image is still there and nothing is in flight.
C10_BlankGenerateRefused ==
    /\ genError = <<"Please enter a prompt to generate an image.">>
    /\ Blank(genPrompt)
    /\ generatedImage # null
    /\ ~genIsLoading
    /\ gens = <<>>

\* The operations whose handler calls the AI service before its first await
DirectOperations == {"edit", "generate", "upscale"}

\* The retouch handlers that still await renderImageWithEffectsToCanvas
AwaitingCanvas == {id \in DOMAIN retouches : retouches[id].awaits = "canvas"}

\* C5 as stated: every accepted user action has issued exactly one request, as
\* soon as its handler is past the point where it calls the service.
C5_ExactlyOneRequest ==
    /\ \A op \in DirectOperations : issued[op] = accepted[op]
    /\ AwaitingCanvas = {} => issued["retouch"] = accepted["retouch"]

\* C5 amended: an accepted edit, generation or upscale issues exactly one request
\* in the step that accepts it; an accepted retouch issues one request when its
\* canvas render resolves and none when it rejects; no other step, and so no
\* failure of a request, issues a request.
C5_SingleShot ==
    /\ [](\A op \in DirectOperations : issued[op] = accepted[op])
    /\ [](issued["retouch"] + Cardinality(AwaitingCanvas) <= accepted["retouch"])
    /\ [][\A op \in DirectOperations :
             /\ issued'[op] - issued[op] = accepted'[op] - accepted[op]
             /\ issued'[op] - issued[op] \in {0, 1}]_vars
    /\ [][issued'["retouch"] # issued["retouch"] =>
             /\ issued'["retouch"] = issued["retouch"] + 1
             /\ Cardinality(AwaitingCanvas') = Cardinality(AwaitingCanvas) - 1
             /\ accepted' = accepted]_vars

\* An edit request failed and the failure is on screen; the one request of the
\* one accepted action is all that was issued.
C5_FailedOnce ==
    /\ error = <<"Editing failed: ", "request failed">>
    /\ edits = <<>>
    /\ accepted["edit"] = 1
    /\ issued["edit"] = 1

-----------------------------------------------------------------------------
(* Properties of the filters of ImageControlPanel *)

\* C7: activeFilter.name is one of the 21 names of the filters table, the names
\* are pairwise distinct so that the lookup by name finds exactly one entry,
\* activeFilter.intensity is within 0..100, and 'None' gives the empty filter
\* string.
C7_FilterTable ==
    /\ Len(filters) = 21
    /\ \A j, k \in DOMAIN filters : filters[j].name = filters[k].name => j = k
    /\ Cardinality(filtersFound(activeFilter.name)) = 1
    /\ activeFilter.intensity \in IntensityMin..IntensityMax
    /\ activeFilter.name = "None" => filterFunc(activeFilter) = <<>>
    /\ filterFunc([name |-> "None", intensity |-> activeFilter.intensity]) = <<>>

\* The panel shows its second image with 'Sepia' selected after it and the
\* slider moved to the lowest intensity.
C7_FilterChosen ==
    /\ imageSrc = <<"upload", 2, "image/jpeg">>
    /\ activeFilter = [name |-> "Sepia", intensity |-> 0]
    /\ filterFunc(activeFilter) = <<<<"sepia", 0, "%">>>>

-----------------------------------------------------------------------------
(* Properties of DownloadModal.handleDownload *)

\* handleDownload is in, or has just left, the JPEG path with a target size.
TargetPath == format = "JPEG" /\ targetSize.isEnabled

\* This step is the rejection of a promise handleDownload awaits.
DownloadRejected(err) == CanvasRejects(err) \/ (err = BlobRejection /\ BlobRejects)

\* C2: with format JPEG and a target size, handleDownload makes at most 18
\* encodes after the first one at quality 0.95, whatever the sizes of the blobs
\* and the target, and then finishes.
C2_LoopTerminates ==
    /\ [](Len(encodes) <= 1 + 18)
    /\ (dlPc # "idle") ~> (dlPc = "idle")

\* No blob fitted a target of 1 KB: the loop went down to quality 0.1 in 17
\* further encodes, and handleDownload has finished with the download.
C2_LongestLoop ==
    /\ TargetPath
    /\ Len(encodes) = 18
    /\ dlPc = "idle"
    /\ downloaded = <<1025, 10>>

\* C3 as stated: with a target size, the downloaded blob is never larger than
\* targetBytes.
C3_WithinTarget ==
    [][\A size \in BlobSizes :
          BlobResolves(size) /\ dlPc = "loop" /\ downloaded' # null
          => downloaded'[1] <= targetBytes(targetSize)]_vars

\* C3 amended: with a target size, the downloaded blob is not larger than
\* targetBytes unless it is the encode at the lowest quality, 0.1.
C3_WithinTargetOrFloor ==
    [][\A size \in BlobSizes :
          BlobResolves(size) /\ dlPc = "loop" /\ downloaded' # null
          => downloaded'[1] <= targetBytes(targetSize) \/ downloaded'[2] = 10]_vars

\* A download with a target of 1 KB, met after the quality was reduced.
C3_TargetMet ==
    /\ TargetPath
    /\ targetBytes(targetSize) = 1024
    /\ Len(encodes) > 1
    /\ downloaded # null
    /\ downloaded[1] = 1024
    /\ downloaded[2] > 10

\* C4: in hundredths, the qualities passed to the encoder are 95, 90, 85, ...,
\* never below 10; the loop encodes again exactly when the blob exceeds
\* targetBytes and the quality is above 10, and otherwise the blob just encoded
\* is the one downloaded.
C4_QualityGrid ==
    /\ [](dlPc = "loop" =>
            \A i \in DOMAIN encodes :
                /\ encodes[i] = <<"image/jpeg", 95 - 5 * (i - 1)>>
                /\ encodes[i][2] >= 10)
    /\ [][\A size \in BlobSizes :
             BlobResolves(size) /\ dlPc = "loop" =>
                IF size > targetBytes(targetSize) /\ encodes[Len(encodes)][2] > 10
                THEN /\ Len(encodes') = Len(encodes) + 1
                     /\ downloaded' = null
                ELSE /\ encodes' = encodes
                     /\ downloaded' = <<size, encodes[Len(encodes)][2]>>]_vars

\* The encodes at 95 and 90 exceeded the target and the one at 85 fitted: it is
\* the one downloaded.
C4_FirstFit ==
    /\ TargetPath
    /\ encodes = <<<<"image/jpeg", 95>>, <<"image/jpeg", 90>>, <<"image/jpeg", 85>>>>
    /\ downloaded = <<1024, 85>>
    /\ targetBytes(targetSize) = 1024

\* C6 as stated: a failure of the canvas render or of the encode sets
\* downloadError to the message of the error.
C6_MessageOfError ==
    [][\A err \in RenderRejections \cup {BlobRejection} :
          DownloadRejected(err) => downloadError' = <<err[2]>>]_vars

\* C6 amended: a failure is caught once; downloadError becomes the message of
\* the error when it is an Error and 'An unknown error occurred during
\* processing.' otherwise, isProcessing becomes false, nothing is downloaded and
\* the handler does not close the modal.  On success the blob is downloaded,
\* the modal is closed and downloadError stays null.
C6_FailureCaught ==
    /\ [][\A err \in RenderRejections \cup {BlobRejection} :
             DownloadRejected(err) =>
                /\ downloadError' =
                      <<IF err[1] THEN err[2]
                        ELSE "An unknown error occurred during processing.">>
                /\ isProcessing' = FALSE
                /\ dlPc' = "idle"
                /\ downloaded' = null
                /\ isDownloadModalOpen' = isDownloadModalOpen]_vars
    /\ [][downloaded' # null /\ downloaded = null =>
             /\ isDownloadModalOpen' = FALSE
             /\ downloadError' = null
             /\ isProcessing' = FALSE
             /\ dlPc' = "idle"]_vars
    /\ [](dlPc # "idle" => downloadError = null /\ downloaded = null)

\* The encode failed: the message of getBlob's Error is shown in the modal,
\* which is still open, and nothing was downloaded.
C6_EncodeFailed ==
    /\ downloadError = <<BlobRejection[2]>>
    /\ ~isProcessing
    /\ dlPc = "idle"
    /\ isDownloadModalOpen
    /\ downloaded = null

-----------------------------------------------------------------------------
(* Properties of the AI retouch *)

\* The options of a retouch that are selected
Selected(options) == {key \in DOMAIN options : options[key]}

\* The commands of the selected ones of the keys, in the keys' order
RECURSIVE CommandsOf(_, _)
CommandsOf(keys, options) ==
    IF keys = <<>> THEN <<>>
    ELSE (IF Head(keys) \in Selected(options)
          THEN <<retouchCommand(Head(keys))>> ELSE <<>>)
         \o CommandsOf(Tail(keys), options)

\* C11: a retouch request is sent only with at least one option selected, and
\* its commands are those of exactly the selected options in the order
\* enhanceSkin, brightenEyes, whitenTeeth, reduceDarkCircles, so never empty;
\* with no option selected handleApplyRetouch sets its message and sends nothing.
C11_RetouchCommands ==
    /\ [](\A id \in DOMAIN retouches :
            /\ Selected(retouches[id].options) # {}
            /\ retouches[id].awaits = "edit" =>
                 /\ retouches[id].commands =
                       CommandsOf(<<"enhanceSkin", "brightenEyes", "whitenTeeth",
                                    "reduceDarkCircles">>, retouches[id].options)
                 /\ Len(retouches[id].commands) =
                       Cardinality(Selected(retouches[id].options))
                 /\ retouches[id].commands # <<>>)
    /\ [][handleApplyRetouchCalled /\ Selected(retouchOptions) = {} =>
            /\ retouchError' = <<"Please select at least one retouch option.">>
            /\ UNCHANGED <<isRetouching, displayImage, panelFlight, issued>>]_vars

\* A request is out for 'Brighten Eyes' and 'Reduce Dark Circles', with their
\* two commands in this order.
C11_TwoCommandsSent ==
    \E id \in DOMAIN retouches :
        /\ retouches[id].awaits = "edit"
        /\ Selected(retouches[id].options) = {"brightenEyes", "reduceDarkCircles"}
        /\ retouches[id].commands =
              <<"brighten the eyes", "reduce dark circles under the eyes">>

-----------------------------------------------------------------------------
(* Properties of App under interleavings of uploads and edits *)

\* C12: in the steps 'choice', 'ai-edit' and 'studio' originalImage is not
\* null, so renderContent renders a component.
C12_ImageInEditingSteps ==
    /\ editingStep \in {"choice", "ai-edit", "studio"} => originalImage # null
    /\ Rendered # "nothing"

\* The uploads and AI edits of App that are in flight
InFlight == Cardinality(DOMAIN uploads) + Cardinality(DOMAIN edits)

\* C13: at most one upload or AI edit is in flight, isLoading is true exactly
\* while one is, and none is started while isLoading is true.
C13_OneInFlight ==
    /\ [](InFlight <= 1)
    /\ [](isLoading = (InFlight = 1))
    /\ [][isLoading => nUploads' = nUploads /\ nEdits' = nEdits]_vars

\* C14: when the result of an AI edit is stored in editedImage, originalImage
\* is the image the request was made from.
C14_EditOfOriginal ==
    [][\A id \in DOMAIN edits :
          EditResolves(id) =>
             /\ originalImage' # null
             /\ edits[id].image = <<"crop", originalImage'[1], originalImage'[2]>>]_vars

\* C15: when the AI edit request fails, editingStep stays 'ai-edit',
\* originalImage and prompt are unchanged, editedImage is null, error is
\* 'Editing failed: ' followed by the failure message, and isLoading is false.
C15_EditFailure ==
    [][\A id \in DOMAIN edits, err \in Rejections :
          EditRejects(id, err) =>
             /\ editingStep = "ai-edit"
             /\ editingStep' = "ai-edit"
             /\ originalImage' = originalImage
             /\ edits[id].image = <<"crop", originalImage'[1], originalImage'[2]>>
             /\ prompt' = prompt
             /\ prompt' = edits[id].prompt
             /\ editedImage' = null
             /\ error' = <<"Editing failed: ",
                           errorMessage(err, "An unknown error occurred.")>>
             /\ isLoading' = FALSE]_vars

=============================================================================
